---- MODULE Spec2Model ----
(***************************************************************************)
(* A model of DatabaseManager (src/local_system.py), the persistence layer *)
(* of the record store: the three tables users, folders and records, the   *)
(* additive migration of the records table, the per-owner display sequence *)
(* user_seq, and the uid uniqueness pre-check.                             *)
(*                                                                         *)
(* Every method is one action: each runs inside one sqlite connection and  *)
(* commits at its end, and the program is a single interactive session.    *)
(* The strings of the source are written in ASCII: "none" is the sentinel  *)
(* uid, "uncategorized" the default category, "medium"/"high"/"low" the    *)
(* priorities, "default" the default folder's name.  created_at is left    *)
(* out: no method reads or writes it after the insert.                     *)
(***************************************************************************)
EXTENDS Integers, Sequences, FiniteSets, TLC

VARIABLES
  cols,             \* PRAGMA table_info(records): the columns of table records
  users,            \* table users: rows [username, password_hash]
  folders,          \* table folders: rows [id, name, owner]
  records,          \* table records: rows with one field per column of cols
  sqlite_sequence,  \* AUTOINCREMENT: the largest id ever given, per table
  result,           \* the last call: its method and the (flag, message) it returned
  assigned,         \* history: the largest user_seq an insert ever gave each owner
  listed,           \* history: the owners get_folders has been called for
  conn              \* the calls in progress, one sqlite3 connection each

vars == <<cols, users, folders, records, sqlite_sequence, result, assigned, listed, conn>>

----------------------------------------------------------------------------
(* Bounds of the model. *)

MaxRecId == 2       \* at most this many records are ever inserted
MaxFolderId == 2    \* at most this many folders are ever inserted
MaxImportRows == 2  \* rows of one imported sheet
MaxSeqRecId == 3    \* records ever inserted in the specification of the sequences
MaxLegacyRows == 2  \* rows of a store written by an earlier schema
MaxStatusFolderId == 1  \* folders ever inserted in the specification of the status
MaxDupRecId == 4    \* records ever inserted in the specification of the duplicates
MaxUserRecId == 1   \* records ever inserted in the specifications of the accounts
MaxSearchRecId == 2 \* records ever inserted in the specification of the searches
MaxConnRecId == 2   \* records ever inserted in the specification of the connections
MaxConnFolderId == 1  \* folders ever inserted in the specification of the connections
                    \* and of the folders

----------------------------------------------------------------------------
(* SQL values. *)

\* SQL NULL in a TEXT column (uid, owner, deadline).
NullText == "NULL"

\* SQL NULL in the INTEGER column user_seq.
NullInt == -1

\* The uid values exempt from uniqueness: the sentinel and the empty string.
SentinelUid == "none"

DefaultCategory == "uncategorized"

DefaultPriority == "medium"

DefaultFolderName == "default"

\* The columns of records that every schema version has.
BaseCols == {"id", "uid", "content"}

\* The columns check_and_migrate adds when absent.
OptionalCols ==
  {"folder_id", "owner", "user_seq", "category", "deadline", "status", "priority"}

AllCols == BaseCols \cup OptionalCols

\* The DEFAULT of each column ALTER TABLE ... ADD COLUMN gives to existing rows.
ColumnDefault(c) ==
  CASE c = "folder_id" -> 0
    [] c = "owner" -> NullText
    [] c = "user_seq" -> NullInt
    [] c = "category" -> DefaultCategory
    [] c = "deadline" -> NullText
    [] c = "status" -> 0
    [] c = "priority" -> DefaultPriority

\* hashlib.sha256(password).hexdigest(): deterministic and injective on the
\* passwords of the model.
_hash_password(password) == <<"sha256", password>>

\* The method called last and what it returned: (success flag, message).
Result(op, ok, msg) == [op |-> op, ok |-> ok, msg |-> msg]

----------------------------------------------------------------------------
(* Queries. *)

\* Mutant of SelectMaxUserSeq: the WHERE owner = ? is missing.
SelectMaxUserSeq_AnyOwner(recs, owner) ==
  LET s == {r.user_seq : r \in {x \in recs : x.user_seq # NullInt}}
  IN IF s = {} THEN NullInt ELSE CHOOSE m \in s : \A n \in s : n <= m

\* SELECT MAX(user_seq) FROM records WHERE owner = ?  (MAX skips NULL; no row,
\* or only NULLs, gives NULL).
SelectMaxUserSeq(recs, owner) ==
  LET s == {r.user_seq : r \in {x \in recs : x.owner = owner /\ x.user_seq # NullInt}}
  IN IF s = {} THEN NullInt ELSE CHOOSE m \in s : \A n \in s : n <= m

\* Mutant of NextSeq: COUNT(*) + 1 in place of MAX(user_seq) + 1.
NextSeq_Count(recs, owner) == Cardinality({r \in recs : r.owner = owner}) + 1

\* next_seq = (res[0] or 0) + 1
NextSeq(recs, owner) ==
  LET res == SelectMaxUserSeq(recs, owner)
  IN (IF res = NullInt \/ res = 0 THEN 0 ELSE res) + 1

\* The rows the SELECT 1 ... LIMIT 1 of is_uid_exist matches.  The statement
\* runs on the cursor conn.execute returns, which is_uid_exist drops.
UidQuery(recs, uid, owner, folder_id, exclude_id) ==
  {r \in recs : /\ r.uid = uid
                /\ r.owner = owner
                /\ r.folder_id = folder_id
                /\ (exclude_id # 0 => r.id # exclude_id)}

\* conn.cursor().fetchone(): a new cursor, on which no statement has run, has
\* no row to fetch whatever UidQuery matched.
FreshCursorRows(matched) == {}

\* is_uid_exist(uid, owner, folder_id, exclude_id); exclude_id = 0 is None.
is_uid_exist(recs, uid, owner, folder_id, exclude_id) ==
  IF uid = SentinelUid \/ uid = ""
  THEN FALSE
  ELSE FreshCursorRows(UidQuery(recs, uid, owner, folder_id, exclude_id)) # {}

\* What a query returned: its rows, in their order.
Rows(op, rows) == [op |-> op, ok |-> TRUE, msg |-> "", rows |-> rows]

\* The place of a uid in ORDER BY uid (TEXT compares byte by byte, a NULL
\* comes first; the sentinel, a CJK character, comes after every ASCII text).
UidOrder(uid) ==
  CASE uid = NullText -> 0
    [] uid = "" -> 1
    [] uid = "A1" -> 2
    [] uid = "B2" -> 3
    [] uid = SentinelUid -> 4

\* Mutant of DuplicateGroups: the subquery without its WHERE owner = ?.
DuplicateGroups_AnyOwner(recs, owner, folder_id) ==
  LET base == {r \in recs : /\ folder_id # -1 => r.folder_id = folder_id
                            /\ r.uid \notin {NullText, SentinelUid, ""}}
      key(r) == IF folder_id = -1 THEN <<r.folder_id, r.uid>> ELSE <<r.uid>>
  IN {k \in {key(r) : r \in base} : Cardinality({r \in base : key(r) = k}) > 1}

\* The subquery of get_all_duplicates: SELECT [folder_id,] uid FROM records
\* WHERE owner = ? [AND folder_id = ?] AND uid != '无' AND uid != ''
\* GROUP BY [folder_id,] uid HAVING COUNT(*) > 1.  A NULL uid fails both !=.
DuplicateGroups(recs, owner, folder_id) ==
  LET base == {r \in recs : /\ r.owner = owner
                            /\ folder_id # -1 => r.folder_id = folder_id
                            /\ r.uid \notin {NullText, SentinelUid, ""}}
      key(r) == IF folder_id = -1 THEN <<r.folder_id, r.uid>> ELSE <<r.uid>>
  IN {k \in {key(r) : r \in base} : Cardinality({r \in base : key(r) = k}) > 1}

\* The rows the outer SELECT of get_all_duplicates keeps: WHERE owner = ?
\* [AND folder_id = ?] AND [(folder_id, uid) | uid] IN (subquery).
DuplicateRows(recs, owner, folder_id) ==
  {r \in recs : /\ r.owner = owner
                /\ folder_id # -1 => r.folder_id = folder_id
                /\ r.uid # NullText
                /\ (IF folder_id = -1 THEN <<r.folder_id, r.uid>> ELSE <<r.uid>>)
                     \in DuplicateGroups(recs, owner, folder_id)}

\* ORDER BY folder_id, uid, id ASC (folder_id = -1) or ORDER BY uid, id ASC:
\* a comes before b.
DupBefore(a, b, folder_id) ==
  IF folder_id = -1 /\ a.folder_id # b.folder_id
  THEN a.folder_id < b.folder_id
  ELSE IF a.uid # b.uid
       THEN UidOrder(a.uid) < UidOrder(b.uid)
       ELSE a.id < b.id

\* The columns get_all_duplicates selects (created_at is left out).
DupColumns(r) ==
  [id |-> r.id, uid |-> r.uid, content |-> r.content, deadline |-> r.deadline,
   user_seq |-> r.user_seq]

\* The rows of S in the order of ORDER BY, first row first.
RECURSIVE DupOrdered(_, _)
DupOrdered(S, folder_id) ==
  IF S = {}
  THEN <<>>
  ELSE LET first == CHOOSE a \in S : \A b \in S \ {a} : DupBefore(a, b, folder_id)
       IN <<DupColumns(first)>> \o DupOrdered(S \ {first}, folder_id)

get_all_duplicates(owner, folder_id) ==
  /\ result' = Rows("get_all_duplicates",
                    DupOrdered(DuplicateRows(records, owner, folder_id), folder_id))
  /\ UNCHANGED <<cols, users, folders, records, sqlite_sequence>>

----------------------------------------------------------------------------
(* get_records: the search of the record table. *)

\* The values of the filters ("全部", "待办", "已完成") and of the search
\* field ("全部", "按UID", "按内容", "按序号").
AllFilter == "all"

PendingFilter == "pending"

DoneFilter == "done"

ByUid == "by_uid"

ByContent == "by_content"

BySeq == "by_seq"

\* The characters of the texts of the model; "nil" is the one character of
\* the sentinel uid.
Chars(text) ==
  CASE text = "" -> <<>>
    [] text = "1" -> <<"1">>
    [] text = "2" -> <<"2">>
    [] text = "a" -> <<"a">>
    [] text = "_" -> <<"_">>
    [] text = "a1" -> <<"a", "1">>
    [] text = "A1" -> <<"A", "1">>
    [] text = "B2" -> <<"B", "2">>
    [] text = "milk" -> <<"m", "i", "l", "k">>
    [] text = "tea 1" -> <<"t", "e", "a", " ", "1">>
    [] text = SentinelUid -> <<"nil">>

\* LIKE compares ASCII letters without their case.
Fold(c) ==
  CASE c = "A" -> "a"
    [] c = "B" -> "b"
    [] OTHER -> c

\* CAST(user_seq AS TEXT): the decimal digits of a number.
Digit(d) ==
  CASE d = 0 -> "0" [] d = 1 -> "1" [] d = 2 -> "2" [] d = 3 -> "3" [] d = 4 -> "4"
    [] d = 5 -> "5" [] d = 6 -> "6" [] d = 7 -> "7" [] d = 8 -> "8" [] d = 9 -> "9"

RECURSIVE CastText(_)
CastText(n) ==
  IF n < 10 THEN <<Digit(n)>> ELSE CastText(n \div 10) \o <<Digit(n % 10)>>

\* text LIKE pattern, on characters: % stands for any run of characters and
\* _ for any one character.
RECURSIVE Like(_, _)
Like(t, pattern) ==
  IF pattern = <<>>
  THEN t = <<>>
  ELSE IF Head(pattern) = "%"
       THEN Like(t, Tail(pattern)) \/ (t # <<>> /\ Like(Tail(t), pattern))
       ELSE /\ t # <<>>
            /\ Head(pattern) = "_" \/ Fold(Head(t)) = Fold(Head(pattern))
            /\ Like(Tail(t), Tail(pattern))

\* column LIKE '%keyword%'; a NULL column matches nothing.
LikeKeyword(isNull, t, keyword) ==
  ~ isNull /\ Like(t, <<"%">> \o Chars(keyword) \o <<"%">>)

UidLike(r, keyword) == LikeKeyword(r.uid = NullText, Chars(r.uid), keyword)

ContentLike(r, keyword) == LikeKeyword(r.content = NullText, Chars(r.content), keyword)

SeqLike(r, keyword) ==
  LikeKeyword(r.user_seq = NullInt,
              IF r.user_seq = NullInt THEN <<>> ELSE CastText(r.user_seq), keyword)

\* The clause `if keyword:` appends for the search field; a field that is
\* none of the four appends none.
KeywordClause(r, search_field, keyword) ==
  CASE search_field = AllFilter ->
         ContentLike(r, keyword) \/ UidLike(r, keyword) \/ SeqLike(r, keyword)
    [] search_field = ByUid -> UidLike(r, keyword)
    [] search_field = ByContent -> ContentLike(r, keyword)
    [] search_field = BySeq -> SeqLike(r, keyword)
    [] OTHER -> TRUE

\* Mutant of SearchRows: the `AND status = 0` of the pending filter is missing.
SearchRows_NoPendingClause(recs, owner, folder_id, category_filter, status_filter, search_field, keyword) ==
  {r \in recs :
     /\ r.owner = owner
     /\ folder_id # -1 => r.folder_id = folder_id
     /\ (category_filter # "" /\ category_filter # AllFilter)
          => r.category = category_filter
     /\ status_filter = DoneFilter => r.status = 1
     /\ keyword # "" => KeywordClause(r, search_field, keyword)}

\* The WHERE of get_records: owner = ? and one AND per active filter.
SearchRows(recs, owner, folder_id, category_filter, status_filter, search_field, keyword) ==
  {r \in recs :
     /\ r.owner = owner
     /\ folder_id # -1 => r.folder_id = folder_id
     /\ (category_filter # "" /\ category_filter # AllFilter)
          => r.category = category_filter
     /\ status_filter = PendingFilter => r.status = 0
     /\ status_filter = DoneFilter => r.status = 1
     /\ keyword # "" => KeywordClause(r, search_field, keyword)}

\* CASE priority WHEN '高' THEN 1 WHEN '中' THEN 2 WHEN '低' THEN 3 ELSE 4 END
PriorityRank(priority) ==
  CASE priority = "high" -> 1
    [] priority = DefaultPriority -> 2
    [] priority = "low" -> 3
    [] OTHER -> 4

\* Mutant of SearchBefore: user_seq ASC in place of user_seq DESC.
SearchBefore_SeqAscending(a, b) ==
  IF a.status # b.status
  THEN a.status < b.status
  ELSE IF PriorityRank(a.priority) # PriorityRank(b.priority)
       THEN PriorityRank(a.priority) < PriorityRank(b.priority)
       ELSE a.user_seq < b.user_seq

\* ORDER BY status ASC, CASE priority ..., user_seq DESC: a comes before b
\* (a NULL user_seq, the smallest value, comes last).
SearchBefore(a, b) ==
  IF a.status # b.status
  THEN a.status < b.status
  ELSE IF PriorityRank(a.priority) # PriorityRank(b.priority)
       THEN PriorityRank(a.priority) < PriorityRank(b.priority)
       ELSE a.user_seq > b.user_seq

\* The columns get_records selects.
SearchColumns(r) ==
  [id |-> r.id, user_seq |-> r.user_seq, uid |-> r.uid, category |-> r.category,
   content |-> r.content, deadline |-> r.deadline, priority |-> r.priority,
   status |-> r.status, folder_id |-> r.folder_id]

\* The orders ORDER BY may return the rows of S in: rows that compare equal
\* come in any order.
RECURSIVE SearchOrders(_)
SearchOrders(S) ==
  IF S = {}
  THEN {<<>>}
  ELSE UNION {{<<SearchColumns(first)>> \o rest : rest \in SearchOrders(S \ {first})}
              : first \in {a \in S : \A b \in S : ~ SearchBefore(b, a)}}

\* The rows a search returns, with the status filter it was called with.
SearchResult(status_filter, rows) ==
  [op |-> "get_records", ok |-> TRUE, msg |-> "", rows |-> rows,
   status_filter |-> status_filter]

get_records(owner, folder_id, category_filter, status_filter, search_field, keyword) ==
  /\ \E rows \in SearchOrders(SearchRows(records, owner, folder_id, category_filter,
                                          status_filter, search_field, keyword)) :
       result' = SearchResult(status_filter, rows)
  /\ UNCHANGED <<cols, users, folders, records, sqlite_sequence>>

----------------------------------------------------------------------------
(* Record operations. *)

NewRecord(id, uid, cat, cont, dead, prio, owner, folder_id, seq) ==
  [id |-> id, user_seq |-> seq, uid |-> uid, content |-> cont, category |-> cat,
   deadline |-> dead, owner |-> owner, status |-> 0, priority |-> prio,
   folder_id |-> folder_id]

add_record(uid, cat, cont, dead, prio, owner, folder_id) ==
  /\ IF is_uid_exist(records, uid, owner, folder_id, 0)
     THEN /\ result' = Result("add_record", FALSE, "DuplicateUid")
          /\ UNCHANGED <<records, sqlite_sequence>>
     ELSE LET id == sqlite_sequence.records + 1
              next_seq == NextSeq(records, owner)
          IN /\ records' = records \cup
                  {NewRecord(id, uid, cat, cont, dead, prio, owner, folder_id, next_seq)}
             /\ sqlite_sequence' = [sqlite_sequence EXCEPT !.records = id]
             /\ result' = Result("add_record", TRUE, "")
  /\ UNCHANGED <<cols, users, folders>>

\* UPDATE records SET uid=? WHERE id=? AND owner=?
SetUid(recs, rid, uid, owner) ==
  {IF r.id = rid /\ r.owner = owner THEN [r EXCEPT !.uid = uid] ELSE r : r \in recs}

update_uid_only(rid, uid, owner, folder_id) ==
  /\ IF is_uid_exist(records, uid, owner, folder_id, rid)
     THEN /\ result' = Result("update_uid_only", FALSE, "DuplicateUid")
          /\ UNCHANGED records
     ELSE /\ records' = SetUid(records, rid, uid, owner)
          /\ result' = Result("update_uid_only", TRUE, "")
  /\ UNCHANGED <<cols, users, folders, sqlite_sequence>>

\* UPDATE records SET uid=?, category=?, content=?, deadline=?, priority=?
\* WHERE id=? AND owner=?
SetFields(recs, rid, uid, cat, new_content, dead, prio, owner) ==
  {IF r.id = rid /\ r.owner = owner
   THEN [r EXCEPT !.uid = uid, !.category = cat, !.content = new_content,
                  !.deadline = dead, !.priority = prio]
   ELSE r : r \in recs}

update_record(rid, uid, cat, new_content, dead, prio, owner, folder_id) ==
  /\ IF is_uid_exist(records, uid, owner, folder_id, rid)
     THEN /\ result' = Result("update_record", FALSE, "DuplicateUid")
          /\ UNCHANGED records
     ELSE /\ records' = SetFields(records, rid, uid, cat, new_content, dead, prio, owner)
          /\ result' = Result("update_record", TRUE, "")
  /\ UNCHANGED <<cols, users, folders, sqlite_sequence>>

\* A cell pandas read as empty: a float NaN.
NaN == "NaN"

\* sqlite3 binds a NaN parameter as NULL.
Bind(v) == IF v = NaN THEN NullText ELSE v

\* if pd.isna(dead): dead = ""
CleanDeadline(dead) == IF dead = NaN THEN "" ELSE dead

\* `if cont:` is false for the empty string only (NaN is a non-zero float).
Truthy(cont) == cont # ""

\* Mutant of ImportRows: the loop without its next_seq += 1.
RECURSIVE ImportRows_SameSeq(_, _, _, _, _, _)
ImportRows_SameSeq(rows, i, owner, folder_id, id, next_seq) ==
  IF i > Len(rows)
  THEN {}
  ELSE LET row == rows[i]
       IN IF Truthy(row.content)
          THEN {NewRecord(id, Bind(row.uid), Bind(row.category), Bind(row.content),
                          CleanDeadline(row.deadline), Bind(row.priority),
                          owner, folder_id, next_seq)}
               \cup ImportRows_SameSeq(rows, i + 1, owner, folder_id, id + 1, next_seq)
          ELSE ImportRows_SameSeq(rows, i + 1, owner, folder_id, id, next_seq)

\* The loop of import_from_excel over the rows from position i on: the rows
\* inserted, given the next id and the next sequence number.
RECURSIVE ImportRows(_, _, _, _, _, _)
ImportRows(rows, i, owner, folder_id, id, next_seq) ==
  IF i > Len(rows)
  THEN {}
  ELSE LET row == rows[i]
       IN IF Truthy(row.content)
          THEN {NewRecord(id, Bind(row.uid), Bind(row.category), Bind(row.content),
                          CleanDeadline(row.deadline), Bind(row.priority),
                          owner, folder_id, next_seq)}
               \cup ImportRows(rows, i + 1, owner, folder_id, id + 1, next_seq + 1)
          ELSE ImportRows(rows, i + 1, owner, folder_id, id, next_seq)

\* folder_id = -1 is the "all folders" view, refused; an inserted row whose
\* content is NULL breaks NOT NULL, and the exception rolls the import back.
import_from_excel(rows, owner, folder_id) ==
  /\ IF folder_id = -1
     THEN /\ result' = Result("import_from_excel", FALSE, "SelectFolder")
          /\ UNCHANGED <<records, sqlite_sequence>>
     ELSE LET new == ImportRows(rows, 1, owner, folder_id,
                                sqlite_sequence.records + 1, NextSeq(records, owner))
          IN IF \E r \in new : r.content = NullText
             THEN /\ result' = Result("import_from_excel", FALSE, "IntegrityError")
                  /\ UNCHANGED <<records, sqlite_sequence>>
             ELSE /\ records' = records \cup new
                  /\ sqlite_sequence' =
                       [sqlite_sequence EXCEPT !.records = @ + Cardinality(new)]
                  /\ result' = Result("import_from_excel", TRUE, "")
  /\ UNCHANGED <<cols, users, folders>>

\* Mutant of toggle_status: new_status is 1 whatever the status read.
toggle_status_MarkDone(rid, owner) ==
  /\ IF ~ \E r \in records : r.id = rid /\ r.owner = owner
     THEN /\ result' = Result("toggle_status", FALSE, "NotFound")
          /\ UNCHANGED records
     ELSE /\ records' =
               {IF r.id = rid /\ r.owner = owner THEN [r EXCEPT !.status = 1] ELSE r
                : r \in records}
          /\ result' = Result("toggle_status", TRUE, "")
  /\ UNCHANGED <<cols, users, folders, sqlite_sequence>>

\* SELECT status ... WHERE id=? AND owner=?; no row: (False, "无"); otherwise
\* new_status = 1 if res[0] == 0 else 0.
toggle_status(rid, owner) ==
  /\ IF ~ \E r \in records : r.id = rid /\ r.owner = owner
     THEN /\ result' = Result("toggle_status", FALSE, "NotFound")
          /\ UNCHANGED records
     ELSE /\ records' =
               {IF r.id = rid /\ r.owner = owner
                THEN [r EXCEPT !.status = IF r.status = 0 THEN 1 ELSE 0]
                ELSE r : r \in records}
          /\ result' = Result("toggle_status", TRUE, "")
  /\ UNCHANGED <<cols, users, folders, sqlite_sequence>>

\* Mutant of delete_record: the delete closes the gap it leaves, taking one
\* off the user_seq of the owner's later records.
delete_record_Renumber(rid, owner) ==
  /\ LET gone == {r \in records : r.id = rid /\ r.owner = owner}
     IN records' =
          {IF r.owner = owner /\ \E g \in gone : g.user_seq < r.user_seq
           THEN [r EXCEPT !.user_seq = @ - 1] ELSE r : r \in records \ gone}
  /\ result' = Result("delete_record", TRUE, "")
  /\ UNCHANGED <<cols, users, folders, sqlite_sequence>>

\* DELETE FROM records WHERE id=? AND owner=?   (returns nothing)
delete_record(rid, owner) ==
  /\ records' = {r \in records : ~(r.id = rid /\ r.owner = owner)}
  /\ result' = Result("delete_record", TRUE, "")
  /\ UNCHANGED <<cols, users, folders, sqlite_sequence>>

----------------------------------------------------------------------------
(* The sequence rebuild. *)

\* Mutant of Renumbered: one count over the whole table, current_seq not
\* reset for each owner.
Renumbered_Global(recs, r) ==
  IF r.owner = NullText
  THEN r
  ELSE [r EXCEPT !.user_seq =
          Cardinality({x \in recs : x.owner # NullText /\ x.id <= r.id})]

\* SELECT id FROM records WHERE owner = ? ORDER BY id ASC, then current_seq
\* counts up from 1: a row's new user_seq is its rank among the ids selected.
\* `owner = ?` is never true of a NULL owner, bound or stored.
Renumbered(recs, r) ==
  IF r.owner = NullText
  THEN r
  ELSE [r EXCEPT !.user_seq =
          Cardinality({x \in recs : x.owner = r.owner /\ x.id <= r.id})]

\* SELECT DISTINCT owner FROM records, one renumbering per owner.
RecalculateAll(recs) == {Renumbered(recs, r) : r \in recs}

recalculate_all_sequences ==
  /\ records' = RecalculateAll(records)
  /\ result' = Result("recalculate_all_sequences", TRUE, "")
  /\ UNCHANGED <<cols, users, folders, sqlite_sequence>>

\* ALTER TABLE records ADD COLUMN c ...: every existing row gets the default.
AddColumn(recs, c) ==
  {[f \in DOMAIN r \cup {c} |-> IF f = c THEN ColumnDefault(c) ELSE r[f]] : r \in recs}

\* One `if c not in cols: ALTER TABLE ...` of check_and_migrate.  cols is read
\* once, before the first ALTER.
Migrated(recs, c) == IF c \in cols THEN recs ELSE AddColumn(recs, c)

\* check_and_migrate: the seven columns in the order of the source.  The
\* rebuild is the second statement of the `if "user_seq" not in cols` line and
\* so runs right after user_seq is added, before category, deadline, status
\* and priority are.  Each ALTER is committed as it runs (sqlite3 opens no
\* transaction for DDL), so the rebuild's own connection sees the new column.
MigratedRecords ==
  LET r1 == Migrated(records, "folder_id")
      r2 == Migrated(r1, "owner")
      r3 == IF "user_seq" \in cols THEN r2
            ELSE RecalculateAll(AddColumn(r2, "user_seq"))
      r4 == Migrated(r3, "category")
      r5 == Migrated(r4, "deadline")
      r6 == Migrated(r5, "status")
  IN Migrated(r6, "priority")

check_and_migrate ==
  /\ records' = MigratedRecords
  /\ cols' = cols \cup OptionalCols
  /\ result' = Result("check_and_migrate", TRUE, "")
  /\ UNCHANGED <<users, folders, sqlite_sequence>>

----------------------------------------------------------------------------
(* Users and folders. *)

NewFolder(id, name, owner) == [id |-> id, name |-> name, owner |-> owner]

\* Mutant of register_user: the folder is inserted, and committed, before the
\* user, so a refused username still gets a folder.
register_user_FolderFirst(username, password) ==
  /\ IF username = "" \/ password = ""
     THEN /\ result' = Result("register_user", FALSE, "InvalidInput")
          /\ UNCHANGED <<users, folders, sqlite_sequence>>
     ELSE LET id == sqlite_sequence.folders + 1
          IN /\ folders' = folders \cup {NewFolder(id, DefaultFolderName, username)}
             /\ sqlite_sequence' = [sqlite_sequence EXCEPT !.folders = id]
             /\ IF \E u \in users : u.username = username
                THEN /\ result' = Result("register_user", FALSE, "DuplicateUser")
                     /\ UNCHANGED users
                ELSE /\ users' = users \cup
                          {[username |-> username,
                            password_hash |-> _hash_password(password)]}
                     /\ result' = Result("register_user", TRUE, "")
  /\ UNCHANGED <<cols, records>>

\* The INSERT into users breaks the PRIMARY KEY when the username exists; the
\* IntegrityError rolls the connection back.
register_user(username, password) ==
  /\ IF username = "" \/ password = ""
     THEN /\ result' = Result("register_user", FALSE, "InvalidInput")
          /\ UNCHANGED <<users, folders, sqlite_sequence>>
     ELSE IF \E u \in users : u.username = username
     THEN /\ result' = Result("register_user", FALSE, "DuplicateUser")
          /\ UNCHANGED <<users, folders, sqlite_sequence>>
     ELSE LET id == sqlite_sequence.folders + 1
          IN /\ users' = users \cup
                  {[username |-> username, password_hash |-> _hash_password(password)]}
             /\ folders' = folders \cup {NewFolder(id, DefaultFolderName, username)}
             /\ sqlite_sequence' = [sqlite_sequence EXCEPT !.folders = id]
             /\ result' = Result("register_user", TRUE, "")
  /\ UNCHANGED <<cols, records>>

\* Mutant of get_folders: a read that inserts nothing.
get_folders_ReadOnly(owner) ==
  /\ result' = Result("get_folders", TRUE, "")
  /\ UNCHANGED <<cols, users, records, folders, sqlite_sequence>>

get_folders(owner) ==
  /\ IF {f \in folders : f.owner = owner} = {}
     THEN LET id == sqlite_sequence.folders + 1
          IN /\ folders' = folders \cup {NewFolder(id, DefaultFolderName, owner)}
             /\ sqlite_sequence' = [sqlite_sequence EXCEPT !.folders = id]
     ELSE UNCHANGED <<folders, sqlite_sequence>>
  /\ result' = Result("get_folders", TRUE, "")
  /\ UNCHANGED <<cols, users, records>>

add_folder(name, owner) ==
  /\ LET id == sqlite_sequence.folders + 1
     IN /\ folders' = folders \cup {NewFolder(id, name, owner)}
        /\ sqlite_sequence' = [sqlite_sequence EXCEPT !.folders = id]
  /\ result' = Result("add_folder", TRUE, "")
  /\ UNCHANGED <<cols, users, records>>

\* Mutant of delete_folder: the DELETE of records without its AND owner = ?.
delete_folder_AnyOwner(folder_id, owner) ==
  /\ records' = {r \in records : r.folder_id # folder_id}
  /\ folders' = {f \in folders : ~(f.id = folder_id /\ f.owner = owner)}
  /\ result' = Result("delete_folder", TRUE, "")
  /\ UNCHANGED <<cols, users, sqlite_sequence>>

delete_folder(folder_id, owner) ==
  /\ records' = {r \in records : ~(r.folder_id = folder_id /\ r.owner = owner)}
  /\ folders' = {f \in folders : ~(f.id = folder_id /\ f.owner = owner)}
  /\ result' = Result("delete_folder", TRUE, "")
  /\ UNCHANGED <<cols, users, sqlite_sequence>>

rename_folder(folder_id, new_name, owner) ==
  /\ folders' = {IF f.id = folder_id /\ f.owner = owner
                 THEN [f EXCEPT !.name = new_name] ELSE f : f \in folders}
  /\ result' = Result("rename_folder", TRUE, "")
  /\ UNCHANGED <<cols, users, records, sqlite_sequence>>

\* SELECT password_hash FROM users WHERE username = ?, compared with the
\* digest of the password given.
login_check(usrs, username, password) ==
  \E u \in usrs : u.username = username /\ u.password_hash = _hash_password(password)

\* Mutant of PrimaryKeyConflict: username is not a key of table users.
PrimaryKeyConflict_None(usrs, old_u, new_u) == FALSE

\* UPDATE users SET username = new_u WHERE username = old_u would leave two
\* rows with the PRIMARY KEY new_u: the statement raises IntegrityError.
PrimaryKeyConflict(usrs, old_u, new_u) ==
  /\ \E u \in usrs : u.username = old_u
  /\ \E u \in usrs : u.username = new_u
  /\ new_u # old_u

\* Mutant of update_user_credentials: the UPDATE of folders is missing.
update_user_credentials_NoFolders(old_u, new_u, new_p) ==
  /\ IF /\ \E u \in users : u.username = old_u
        /\ \E u \in users : u.username = new_u
        /\ new_u # old_u
     THEN /\ result' = Result("update_user_credentials", FALSE, "Fail")
          /\ UNCHANGED <<users, records, folders>>
     ELSE /\ users' = {IF u.username = old_u
                       THEN [username |-> new_u, password_hash |-> _hash_password(new_p)]
                       ELSE u : u \in users}
          /\ records' = {IF r.owner = old_u THEN [r EXCEPT !.owner = new_u] ELSE r
                         : r \in records}
          /\ folders' = folders
          /\ result' = Result("update_user_credentials", TRUE, "")
  /\ UNCHANGED <<cols, sqlite_sequence>>

\* UPDATE users SET username=?, password_hash=? WHERE username=? breaks the
\* PRIMARY KEY when it would give another user's name to the old row; the
\* bare except then returns "Fail" with the connection rolled back.
update_user_credentials(old_u, new_u, new_p) ==
  /\ IF PrimaryKeyConflict(users, old_u, new_u)
     THEN /\ result' = Result("update_user_credentials", FALSE, "Fail")
          /\ UNCHANGED <<users, records, folders>>
     ELSE /\ users' = {IF u.username = old_u
                       THEN [username |-> new_u, password_hash |-> _hash_password(new_p)]
                       ELSE u : u \in users}
          /\ records' = {IF r.owner = old_u THEN [r EXCEPT !.owner = new_u] ELSE r
                         : r \in records}
          /\ folders' = {IF f.owner = old_u THEN [f EXCEPT !.owner = new_u] ELSE f
                         : f \in folders}
          /\ result' = Result("update_user_credentials", TRUE, "")
  /\ UNCHANGED <<cols, sqlite_sequence>>

----------------------------------------------------------------------------
(* The inputs of the model and the specification of the running store. *)

Owners == {"alice", "bob"}

\* The connections that may be open on the file at once (two windows of the
\* program).
Conns == {"c1", "c2"}

\* A connection with no call in progress; records, folders and
\* sqlite_sequence are the tables as its open transaction sees them.
Idle ==
  [pc |-> "idle", owner |-> "", folder_id |-> 0, next_seq |-> 0,
   records |-> {}, folders |-> {}, sqlite_sequence |-> [folders |-> 0, records |-> 0]]

FolderIds == 1..MaxFolderId

RecIds == 1..MaxRecId

Uids == {SentinelUid, "A1"}

Contents == {"", "milk"}

Priorities == {DefaultPriority}

FolderNames == {DefaultFolderName, "work"}

Passwords == {"", "pw"}

\* One row of an imported sheet: the five cells import_from_excel reads.
SheetRow(uid, content) ==
  [uid |-> uid, category |-> DefaultCategory, content |-> content,
   deadline |-> NaN, priority |-> DefaultPriority]

SheetRows == {SheetRow("A1", content) : content \in {"milk", ""}}

Sheets == UNION {[1..n -> SheetRows] : n \in 0..MaxImportRows}

\* Sheets of rows without uid, with a filled, an absent or an empty content.
SeqSheetRows == {SheetRow(SentinelUid, content) : content \in {"milk", "", NaN}}

SeqSheets == UNION {[1..n -> SeqSheetRows] : n \in 0..MaxImportRows}

\* The history variable: the rows of a step that carry a newly given id are
\* the rows the step inserted.
Inserted == {r \in records' : r.id > sqlite_sequence.records}

TrackAssigned ==
  assigned' =
    [o \in DOMAIN assigned |->
       LET new == {r.user_seq : r \in {x \in Inserted : x.owner = o}} \cup {assigned[o]}
       IN CHOOSE m \in new : \A n \in new : n <= m]

\* The history of a step of a specification that does not follow listed.
Track == TrackAssigned /\ UNCHANGED <<listed, conn>>

\* The state after DatabaseManager() on a new file: the three tables, empty.
Init ==
  /\ cols = AllCols
  /\ users = {}
  /\ folders = {}
  /\ records = {}
  /\ sqlite_sequence = [folders |-> 0, records |-> 0]
  /\ result = Result("init_db", TRUE, "")
  /\ assigned = [o \in Owners |-> 0]
  /\ listed = {}
  /\ conn = [c \in Conns |-> Idle]

AddRecordStep ==
  /\ sqlite_sequence.records < MaxRecId
  /\ \E uid \in Uids, cont \in Contents, owner \in Owners, folder_id \in FolderIds :
       add_record(uid, DefaultCategory, cont, "", DefaultPriority, owner, folder_id)
  /\ Track

UpdateUidOnlyStep ==
  /\ \E rid \in RecIds, uid \in Uids, owner \in Owners, folder_id \in FolderIds :
       update_uid_only(rid, uid, owner, folder_id)
  /\ Track

UpdateRecordStep ==
  /\ \E rid \in RecIds, uid \in Uids, cont \in Contents, prio \in Priorities,
        owner \in Owners, folder_id \in FolderIds :
       update_record(rid, uid, DefaultCategory, cont, "", prio, owner, folder_id)
  /\ Track

ImportStep ==
  /\ \E rows \in Sheets, owner \in Owners, folder_id \in FolderIds \cup {-1} :
       /\ sqlite_sequence.records + Len(rows) <= MaxRecId
       /\ import_from_excel(rows, owner, folder_id)
  /\ Track

ToggleStatusStep ==
  /\ \E rid \in RecIds, owner \in Owners : toggle_status(rid, owner)
  /\ Track

DeleteRecordStep ==
  /\ \E rid \in RecIds, owner \in Owners : delete_record(rid, owner)
  /\ Track

RecalculateStep == recalculate_all_sequences /\ Track

DeleteFolderStep ==
  /\ \E folder_id \in FolderIds, owner \in Owners : delete_folder(folder_id, owner)
  /\ Track

\* The record operations of one session on a new store.
Next ==
  \/ AddRecordStep
  \/ UpdateUidOnlyStep
  \/ UpdateRecordStep
  \/ ImportStep
  \/ ToggleStatusStep
  \/ DeleteRecordStep
  \/ DeleteFolderStep
  \/ RecalculateStep

Spec == Init /\ [][Next]_vars

----------------------------------------------------------------------------
(* Every record and folder operation, on records of one content. *)

AllAddRecord ==
  /\ sqlite_sequence.records < MaxRecId
  /\ \E uid \in Uids, owner \in Owners, folder_id \in FolderIds :
       add_record(uid, DefaultCategory, "milk", "", DefaultPriority, owner, folder_id)
  /\ Track

AllUpdateUidOnly ==
  /\ \E rid \in RecIds, uid \in Uids, owner \in Owners, folder_id \in FolderIds :
       update_uid_only(rid, uid, owner, folder_id)
  /\ Track

AllUpdateRecord ==
  /\ \E rid \in RecIds, uid \in Uids, owner \in Owners, folder_id \in FolderIds :
       update_record(rid, uid, DefaultCategory, "milk", "", DefaultPriority,
                     owner, folder_id)
  /\ Track

AllImport ==
  /\ \E rows \in SeqSheets, owner \in Owners, folder_id \in FolderIds \cup {-1} :
       /\ sqlite_sequence.records + Len(rows) <= MaxRecId
       /\ import_from_excel(rows, owner, folder_id)
  /\ Track

AllToggleStatus ==
  /\ \E rid \in RecIds, owner \in Owners : toggle_status(rid, owner)
  /\ Track

AllDeleteRecord ==
  /\ \E rid \in RecIds, owner \in Owners : delete_record(rid, owner)
  /\ Track

AllRecalculate == recalculate_all_sequences /\ Track

AllGetFolders ==
  /\ sqlite_sequence.folders < MaxFolderId
  /\ \E owner \in Owners : get_folders(owner)
  /\ Track

AllAddFolder ==
  /\ sqlite_sequence.folders < MaxFolderId
  /\ \E name \in FolderNames, owner \in Owners : add_folder(name, owner)
  /\ Track

AllDeleteFolder ==
  /\ \E folder_id \in FolderIds, owner \in Owners : delete_folder(folder_id, owner)
  /\ Track

AllRenameFolder ==
  /\ \E folder_id \in FolderIds, name \in FolderNames, owner \in Owners :
       rename_folder(folder_id, name, owner)
  /\ Track

NextAll ==
  \/ AllAddRecord
  \/ AllUpdateUidOnly
  \/ AllUpdateRecord
  \/ AllImport
  \/ AllToggleStatus
  \/ AllDeleteRecord
  \/ AllRecalculate
  \/ AllGetFolders
  \/ AllAddFolder
  \/ AllDeleteFolder
  \/ AllRenameFolder

SpecAll == Init /\ [][NextAll]_vars

----------------------------------------------------------------------------
(* The sequence numbers alone: the operations that insert, delete and       *)
(* renumber records, with one uid and one content, over more records.       *)

SeqAddRecord ==
  /\ sqlite_sequence.records < MaxSeqRecId
  /\ \E owner \in Owners, folder_id \in FolderIds :
       add_record(SentinelUid, DefaultCategory, "milk", "", DefaultPriority,
                  owner, folder_id)
  /\ Track

SeqImport ==
  /\ \E rows \in SeqSheets, owner \in Owners, folder_id \in FolderIds \cup {-1} :
       /\ sqlite_sequence.records + Len(rows) <= MaxSeqRecId
       /\ import_from_excel(rows, owner, folder_id)
  /\ Track

SeqDeleteRecord ==
  /\ \E rid \in 1..MaxSeqRecId, owner \in Owners : delete_record(rid, owner)
  /\ Track

SeqDeleteFolder ==
  /\ \E folder_id \in FolderIds, owner \in Owners : delete_folder(folder_id, owner)
  /\ Track

SeqRecalculate == recalculate_all_sequences /\ Track

NextSeqOps ==
  \/ SeqAddRecord
  \/ SeqImport
  \/ SeqDeleteRecord
  \/ SeqDeleteFolder
  \/ SeqRecalculate

SpecSeq == Init /\ [][NextSeqOps]_vars

----------------------------------------------------------------------------
(* Opening a store that an earlier version of the schema wrote: the records *)
(* table has the base columns and any of the seven later ones, and holds    *)
(* up to MaxLegacyRows rows.                                                *)

\* What a row of an earlier version may hold in a column it has.  A row
\* older than its owner column holds NULL there.
LegacyValues(c) ==
  CASE c = "folder_id" -> {1, 2}
    [] c = "owner" -> Owners \cup {NullText}
    [] c = "user_seq" -> {1, 2}
    [] c = "category" -> {DefaultCategory}
    [] c = "deadline" -> {""}
    [] c = "status" -> {0, 1}
    [] c = "priority" -> {DefaultPriority}

\* The rows with the fields of rows and one more, column c.
WithColumn(rows, c) ==
  {[f \in DOMAIN r \cup {c} |-> IF f = c THEN v ELSE r[f]] :
     r \in rows, v \in LegacyValues(c)}

RECURSIVE LegacyRows(_, _)
LegacyRows(rows, present) ==
  IF present = {}
  THEN rows
  ELSE LET c == CHOOSE x \in present : TRUE
       IN LegacyRows(WithColumn(rows, c), present \ {c})

\* The rows with system id `id` a store with the optional columns `present`
\* may hold.
LegacyRowsOf(id, present) ==
  LegacyRows({[id |-> id, uid |-> "A1", content |-> "milk"]}, present)

\* The tables of n rows, with the ids 1..n, such a store may hold.
RECURSIVE LegacyTables(_, _)
LegacyTables(n, present) ==
  IF n = 0
  THEN {{}}
  ELSE {t \cup {r} : t \in LegacyTables(n - 1, present), r \in LegacyRowsOf(n, present)}

\* The folders of a store whose records have a folder_id: one of each owner.
LegacyFolders ==
  {NewFolder(1, DefaultFolderName, "alice"), NewFolder(2, DefaultFolderName, "bob")}

\* A row that has a folder_id and an owner is in a folder of its owner.
InOwnFolder(r, flds) ==
  ("folder_id" \in DOMAIN r /\ "owner" \in DOMAIN r)
  => \E f \in flds : f.id = r.folder_id /\ f.owner = r.owner

InitLegacy ==
  /\ \E present \in SUBSET OptionalCols :
       /\ cols = BaseCols \cup present
       /\ folders = IF "folder_id" \in present THEN LegacyFolders ELSE {}
       /\ \E n \in 0..MaxLegacyRows :
            /\ sqlite_sequence = [folders |-> Cardinality(folders), records |-> n]
            /\ records \in LegacyTables(n, present)
       /\ \A r \in records : InOwnFolder(r, folders)
  /\ users = {}
  /\ result = Result("init_db", TRUE, "")
  /\ assigned = [o \in Owners |-> 0]
  /\ listed = {}
  /\ conn = [c \in Conns |-> Idle]

OpenStep == check_and_migrate /\ Track

NextMigrate == OpenStep

SpecMigrate == InitLegacy /\ [][NextMigrate]_vars

----------------------------------------------------------------------------
(* The accounts: registration, the change of credentials, and the inserts   *)
(* of folders and records by the user who is logged in.                     *)

\* What the entry fields of the account forms may hold.
Usernames == Owners \cup {""}

\* The users who can be logged in: login_check has accepted them.
Registered == {u.username : u \in users}

\* The folders the folder tree of an owner shows.
FoldersOf(flds, owner) == {f.id : f \in {x \in flds : x.owner = owner}}

UsersRegister ==
  /\ sqlite_sequence.folders < MaxFolderId
  /\ \E username \in Usernames, password \in Passwords :
       register_user(username, password)
  /\ Track

UsersUpdateCredentials ==
  /\ \E old_u \in Registered, new_u \in Usernames, new_p \in Passwords :
       update_user_credentials(old_u, new_u, new_p)
  /\ Track

UsersAddFolder ==
  /\ sqlite_sequence.folders < MaxFolderId
  /\ \E owner \in Registered : add_folder("work", owner)
  /\ Track

UsersAddRecord ==
  /\ sqlite_sequence.records < MaxUserRecId
  /\ \E owner \in Registered : \E folder_id \in FoldersOf(folders, owner) :
       add_record(SentinelUid, DefaultCategory, "milk", "", DefaultPriority,
                  owner, folder_id)
  /\ Track

NextUsers ==
  \/ UsersRegister
  \/ UsersUpdateCredentials
  \/ UsersAddFolder
  \/ UsersAddRecord

SpecUsers == Init /\ [][NextUsers]_vars

----------------------------------------------------------------------------
(* The folders: every folder operation, with the inserts and deletes of     *)
(* records, and the history of the owners get_folders was called for (the   *)
(* history of the sequence numbers is not followed here).                   *)

FoldersGetFolders ==
  /\ \E owner \in Owners :
       /\ FoldersOf(folders, owner) = {} => sqlite_sequence.folders < MaxFolderId
       /\ get_folders(owner)
       /\ listed' = listed \cup {owner}
  /\ UNCHANGED <<assigned, conn>>

FoldersAddFolder ==
  /\ sqlite_sequence.folders < MaxFolderId
  /\ \E name \in FolderNames, owner \in Owners : add_folder(name, owner)
  /\ UNCHANGED <<assigned, listed, conn>>

FoldersDeleteFolder ==
  /\ \E folder_id \in FolderIds, owner \in Owners : delete_folder(folder_id, owner)
  /\ UNCHANGED <<assigned, listed, conn>>

FoldersRenameFolder ==
  /\ \E folder_id \in FolderIds, name \in FolderNames, owner \in Owners :
       rename_folder(folder_id, name, owner)
  /\ UNCHANGED <<assigned, listed, conn>>

FoldersAddRecord ==
  /\ sqlite_sequence.records < MaxUserRecId
  /\ \E owner \in Owners, folder_id \in FolderIds :
       add_record(SentinelUid, DefaultCategory, "milk", "", DefaultPriority,
                  owner, folder_id)
  /\ UNCHANGED <<assigned, listed, conn>>

FoldersDeleteRecord ==
  /\ \E rid \in 1..MaxUserRecId, owner \in Owners : delete_record(rid, owner)
  /\ UNCHANGED <<assigned, listed, conn>>

NextFolders ==
  \/ FoldersGetFolders
  \/ FoldersAddFolder
  \/ FoldersDeleteFolder
  \/ FoldersRenameFolder
  \/ FoldersAddRecord
  \/ FoldersDeleteRecord

SpecFolders == Init /\ [][NextFolders]_vars

----------------------------------------------------------------------------
(* The cascade of delete_folder: folders and records of two owners, a       *)
(* record's folder_id being any id (no statement checks it).                *)

CascadeAddFolder ==
  /\ sqlite_sequence.folders < MaxFolderId
  /\ \E owner \in Owners : add_folder("work", owner)
  /\ Track

CascadeDeleteFolder ==
  /\ \E folder_id \in FolderIds, owner \in Owners : delete_folder(folder_id, owner)
  /\ Track

CascadeAddRecord ==
  /\ sqlite_sequence.records < MaxRecId
  /\ \E owner \in Owners, folder_id \in FolderIds :
       add_record(SentinelUid, DefaultCategory, "milk", "", DefaultPriority,
                  owner, folder_id)
  /\ Track

NextCascade ==
  \/ CascadeAddFolder
  \/ CascadeDeleteFolder
  \/ CascadeAddRecord

SpecCascade == Init /\ [][NextCascade]_vars

----------------------------------------------------------------------------
(* The status of a record: the operations that insert, change and delete    *)
(* records, and the rename of a folder, on records of one folder.           *)

StatusAddRecord ==
  /\ sqlite_sequence.records < MaxRecId
  /\ \E owner \in Owners :
       add_record(SentinelUid, DefaultCategory, "milk", "", DefaultPriority, owner, 1)
  /\ UNCHANGED <<assigned, listed, conn>>

StatusToggleStatus ==
  /\ \E rid \in RecIds, owner \in Owners : toggle_status(rid, owner)
  /\ UNCHANGED <<assigned, listed, conn>>

StatusUpdateRecord ==
  /\ \E rid \in RecIds, uid \in Uids, owner \in Owners :
       update_record(rid, uid, DefaultCategory, "milk", "", DefaultPriority, owner, 1)
  /\ UNCHANGED <<assigned, listed, conn>>

StatusUpdateUidOnly ==
  /\ \E rid \in RecIds, uid \in Uids, owner \in Owners :
       update_uid_only(rid, uid, owner, 1)
  /\ UNCHANGED <<assigned, listed, conn>>

StatusDeleteRecord ==
  /\ \E rid \in RecIds, owner \in Owners : delete_record(rid, owner)
  /\ UNCHANGED <<assigned, listed, conn>>

StatusAddFolder ==
  /\ sqlite_sequence.folders < MaxStatusFolderId
  /\ \E owner \in Owners : add_folder(DefaultFolderName, owner)
  /\ UNCHANGED <<assigned, listed, conn>>

StatusRenameFolder ==
  /\ \E folder_id \in 1..MaxStatusFolderId, name \in FolderNames, owner \in Owners :
       rename_folder(folder_id, name, owner)
  /\ UNCHANGED <<assigned, listed, conn>>

NextStatus ==
  \/ StatusAddRecord
  \/ StatusToggleStatus
  \/ StatusUpdateRecord
  \/ StatusUpdateUidOnly
  \/ StatusDeleteRecord
  \/ StatusAddFolder
  \/ StatusRenameFolder

SpecStatus == Init /\ [][NextStatus]_vars

----------------------------------------------------------------------------
(* The duplicates: records with the uids is_uid_exist lets through, in two  *)
(* folders, and the query that lists them.                                  *)

DupUids == {SentinelUid, "", "A1", "B2"}

\* The folder a query names: a folder, or -1 for all of them.
QueryFolderIds == {1, 2, -1}

\* alice's records take any uid in folder 1 and A1 in folder 2; bob's hold
\* A1 in folder 1.
DupAddRecord ==
  /\ sqlite_sequence.records < MaxDupRecId
  /\ \/ \E uid \in DupUids :
          add_record(uid, DefaultCategory, "milk", "", DefaultPriority, "alice", 1)
     \/ \E owner \in Owners :
          add_record("A1", DefaultCategory, "milk", "", DefaultPriority, owner,
                     IF owner = "alice" THEN 2 ELSE 1)
  /\ UNCHANGED <<assigned, listed, conn>>

DupGetAllDuplicates ==
  /\ \E owner \in Owners, folder_id \in QueryFolderIds :
       get_all_duplicates(owner, folder_id)
  /\ UNCHANGED <<assigned, listed, conn>>

NextDup ==
  \/ DupAddRecord
  \/ DupGetAllDuplicates

SpecDup == Init /\ [][NextDup]_vars

----------------------------------------------------------------------------
(* Searches of tables of records of several priorities and both statuses. *)

\* The priorities of the form and one the form does not offer (an imported
\* file may hold any text).
SearchPriorities == {"high", "low", "urgent"}

\* Owner, folder (-1: every folder) and category filter of a search.
SearchScopes ==
  {<<"alice", -1, AllFilter>>, <<"alice", 1, AllFilter>>,
   <<"alice", -1, "work">>, <<"bob", -1, AllFilter>>}

StatusFilters == {AllFilter, PendingFilter, DoneFilter}

\* Search field and keyword of a search.
SearchKeywords ==
  {<<AllFilter, "">>, <<AllFilter, "1">>, <<ByUid, "a1">>,
   <<ByContent, "milk">>, <<BySeq, "1">>, <<ByContent, "_">>}

SearchAddRecord ==
  /\ sqlite_sequence.records < MaxSearchRecId
  /\ \/ \E prio \in SearchPriorities :
          add_record(SentinelUid, DefaultCategory, "milk", "", prio, "alice", 1)
     \/ add_record("A1", "work", "tea 1", "", DefaultPriority, "alice", 2)
     \/ add_record(SentinelUid, DefaultCategory, "milk", "", DefaultPriority, "bob", 1)
  /\ UNCHANGED <<assigned, listed, conn>>

SearchToggleStatus ==
  /\ \E rid \in 1..MaxSearchRecId, owner \in Owners : toggle_status(rid, owner)
  /\ UNCHANGED <<assigned, listed, conn>>

SearchGetRecords ==
  /\ \E scope \in SearchScopes, status_filter \in StatusFilters,
        search \in SearchKeywords :
       get_records(scope[1], scope[2], scope[3], status_filter, search[1], search[2])
  /\ UNCHANGED <<assigned, listed, conn>>

NextSearch ==
  \/ SearchAddRecord
  \/ SearchToggleStatus
  \/ SearchGetRecords

SpecSearch == Init /\ [][NextSearch]_vars

----------------------------------------------------------------------------
(* add_record and delete_folder statement by statement, on two connections  *)
(* to the same file. A connection opens its transaction at its first INSERT *)
(* or DELETE (the implicit BEGIN of sqlite3) and holds the write lock of    *)
(* the file until it commits; a SELECT reads the committed tables outside   *)
(* any transaction.                                                         *)

\* The connection is inside a transaction: it has written and not committed.
InTransaction(c) == conn[c].pc \in {"commit_insert", "delete_folders", "commit_delete"}

\* No other connection holds the write lock.
WriteLockFree(c) == \A d \in Conns \ {c} : ~ InTransaction(d)

\* The calls of add_record that have not inserted yet or not committed yet.
Inserting == {c \in Conns : conn[c].pc \in {"insert", "commit_insert"}}

\* add_record up to its SELECT MAX(user_seq): is_uid_exist, then the read of
\* next_seq from the committed rows.
ConnAddSelect(c) ==
  /\ conn[c].pc = "idle"
  /\ sqlite_sequence.records + Cardinality(Inserting) < MaxConnRecId
  /\ \E owner \in Owners :
       \E folder_id \in FoldersOf(folders, owner) :
         IF is_uid_exist(records, SentinelUid, owner, folder_id, 0)
         THEN /\ result' = Result("add_record", FALSE, "DuplicateUid")
              /\ UNCHANGED conn
         ELSE /\ conn' = [conn EXCEPT ![c] =
                          [Idle EXCEPT !.pc = "insert", !.owner = owner,
                                       !.folder_id = folder_id,
                                       !.next_seq = NextSeq(records, owner)]]
              /\ UNCHANGED result
  /\ UNCHANGED <<cols, users, folders, records, sqlite_sequence, assigned, listed>>

\* The INSERT of add_record: it opens the transaction and writes the row with
\* the next_seq read before.
ConnAddInsert(c) ==
  /\ conn[c].pc = "insert"
  /\ WriteLockFree(c)
  /\ LET id == sqlite_sequence.records + 1
     IN conn' = [conn EXCEPT ![c] =
                   [@ EXCEPT !.pc = "commit_insert",
                             !.records = records \cup
                               {NewRecord(id, SentinelUid, DefaultCategory, "milk", "",
                                          DefaultPriority, conn[c].owner,
                                          conn[c].folder_id, conn[c].next_seq)},
                             !.folders = folders,
                             !.sqlite_sequence =
                               [sqlite_sequence EXCEPT !.records = id]]]
  /\ UNCHANGED <<cols, users, folders, records, sqlite_sequence, result, assigned, listed>>

\* conn.commit() of add_record and its return.
ConnAddCommit(c) ==
  /\ conn[c].pc = "commit_insert"
  /\ records' = conn[c].records
  /\ sqlite_sequence' = conn[c].sqlite_sequence
  /\ result' = Result("add_record", TRUE, "")
  /\ conn' = [conn EXCEPT ![c] = Idle]
  /\ UNCHANGED <<cols, users, folders, assigned, listed>>

\* Mutant of ConnDeleteRecords: the DELETE is committed on its own.
ConnDeleteRecords_Autocommit(c) ==
  /\ conn[c].pc = "idle"
  /\ WriteLockFree(c)
  /\ \E owner \in Owners, folder_id \in 1..MaxConnFolderId :
       /\ records' = {r \in records : ~(r.folder_id = folder_id /\ r.owner = owner)}
       /\ conn' = [conn EXCEPT ![c] =
                     [Idle EXCEPT !.pc = "delete_folders", !.owner = owner,
                                  !.folder_id = folder_id,
                                  !.records = records',
                                  !.folders = folders,
                                  !.sqlite_sequence = sqlite_sequence]]
  /\ UNCHANGED <<cols, users, folders, sqlite_sequence, result, assigned, listed>>

\* The DELETE FROM records of delete_folder: it opens the transaction.
ConnDeleteRecords(c) ==
  /\ conn[c].pc = "idle"
  /\ WriteLockFree(c)
  /\ \E owner \in Owners, folder_id \in 1..MaxConnFolderId :
       conn' = [conn EXCEPT ![c] =
                  [Idle EXCEPT !.pc = "delete_folders", !.owner = owner,
                               !.folder_id = folder_id,
                               !.records = {r \in records :
                                              ~(r.folder_id = folder_id /\ r.owner = owner)},
                               !.folders = folders,
                               !.sqlite_sequence = sqlite_sequence]]
  /\ UNCHANGED <<cols, users, folders, records, sqlite_sequence, result, assigned, listed>>

\* The DELETE FROM folders of delete_folder, in the same transaction.
ConnDeleteFolders(c) ==
  /\ conn[c].pc = "delete_folders"
  /\ conn' = [conn EXCEPT ![c] =
                [@ EXCEPT !.pc = "commit_delete",
                          !.folders = {f \in conn[c].folders :
                                         ~(f.id = conn[c].folder_id
                                           /\ f.owner = conn[c].owner)}]]
  /\ UNCHANGED <<cols, users, folders, records, sqlite_sequence, result, assigned, listed>>

\* conn.commit() of delete_folder and its return.
ConnDeleteCommit(c) ==
  /\ conn[c].pc = "commit_delete"
  /\ records' = conn[c].records
  /\ folders' = conn[c].folders
  /\ result' = Result("delete_folder", TRUE, "")
  /\ conn' = [conn EXCEPT ![c] = Idle]
  /\ UNCHANGED <<cols, users, sqlite_sequence, assigned, listed>>

\* A write while another connection holds the lock past the timeout: the
\* statement raises "database is locked" and the call returns the failure.
ConnLocked(c) ==
  /\ conn[c].pc = "insert"
  /\ ~ WriteLockFree(c)
  /\ result' = Result("add_record", FALSE, "database is locked")
  /\ conn' = [conn EXCEPT ![c] = Idle]
  /\ UNCHANGED <<cols, users, folders, records, sqlite_sequence, assigned, listed>>

\* The process of a connection dies in the middle of a call: what its
\* transaction has not committed is rolled back, and the call returns nothing
\* (result notes where it stopped).
ConnCrash(c) ==
  /\ conn[c].pc # "idle"
  /\ conn' = [conn EXCEPT ![c] = Idle]
  /\ result' = Result(IF conn[c].pc \in {"insert", "commit_insert"}
                      THEN "add_record" ELSE "delete_folder",
                      FALSE,
                      CASE conn[c].pc = "insert" -> "crash after SELECT"
                        [] conn[c].pc = "commit_insert" -> "crash after INSERT"
                        [] conn[c].pc = "delete_folders" -> "crash after DELETE FROM records"
                        [] conn[c].pc = "commit_delete" -> "crash after DELETE FROM folders")
  /\ UNCHANGED <<cols, users, folders, records, sqlite_sequence, assigned, listed>>

\* add_folder, one statement and its commit.
ConnAddFolder ==
  /\ sqlite_sequence.folders < MaxConnFolderId
  /\ \A c \in Conns : ~ InTransaction(c)
  /\ \E owner \in Owners : add_folder("work", owner)
  /\ UNCHANGED <<assigned, listed, conn>>

NextConn ==
  \/ ConnAddFolder
  \/ \E c \in Conns :
       \/ ConnAddSelect(c)
       \/ ConnAddInsert(c)
       \/ ConnAddCommit(c)
       \/ ConnDeleteRecords(c)
       \/ ConnDeleteFolders(c)
       \/ ConnDeleteCommit(c)
       \/ ConnLocked(c)
       \/ ConnCrash(c)

SpecConn == Init /\ [][NextConn]_vars

----------------------------------------------------------------------------
(* Properties.                                                              *)

IsSentinel(uid) == uid = SentinelUid \/ uid = ""

\* The rows of recs that hold uid in (owner, folder_id).
Holding(recs, uid, owner, folder_id) ==
  {r \in recs : r.uid = uid /\ r.owner = owner /\ r.folder_id = folder_id}

Ids(recs) == {r.id : r \in recs}

\* The user_seq values of the owner's rows, and the largest of a set.
SeqsOf(recs, owner) == {r.user_seq : r \in {x \in recs : x.owner = owner}}

Largest(S) == CHOOSE m \in S : \A n \in S : n <= m

\* C1: add_record of a non-sentinel uid that a record of the same (owner,
\* folder) already holds fails with DuplicateUid and adds no record, and
\* add_record of a sentinel uid succeeds and adds a record even when the
\* same (owner, folder) already holds that sentinel.
C1_DuplicateUidRejected ==
  [][\A uid \in Uids, cont \in Contents, owner \in Owners, folder_id \in FolderIds :
       add_record(uid, DefaultCategory, cont, "", DefaultPriority, owner, folder_id)
       => IF IsSentinel(uid)
          THEN result'.ok /\ Cardinality(records') = Cardinality(records) + 1
          ELSE Holding(records, uid, owner, folder_id) # {}
               => /\ ~ result'.ok
                  /\ result'.msg = "DuplicateUid"
                  /\ records' = records]_vars

\* C2 (I1): no two records of the same owner and folder hold the same
\* non-sentinel uid.
C2_UidUniquePerFolder ==
  \A a \in records, b \in records :
    (a.id # b.id /\ a.owner = b.owner /\ a.folder_id = b.folder_id /\ a.uid = b.uid)
    => IsSentinel(a.uid)

\* C3: update_record and update_uid_only to a non-sentinel uid that another
\* record of the same (owner, folder) holds fail and change no record, and
\* one that keeps the record's own uid succeeds.
C3_UpdateRevalidatesUid ==
  [][\A rid \in RecIds, uid \in Uids, owner \in Owners, folder_id \in FolderIds :
       /\ (update_uid_only(rid, uid, owner, folder_id)
           \/ \E cont \in Contents :
                update_record(rid, uid, DefaultCategory, cont, "", DefaultPriority,
                              owner, folder_id))
       /\ \E r \in records : r.id = rid /\ r.owner = owner /\ r.folder_id = folder_id
       /\ ~ IsSentinel(uid)
       => IF \E r \in Holding(records, uid, owner, folder_id) : r.id # rid
          THEN ~ result'.ok /\ records' = records
          ELSE result'.ok /\ \E r \in records' : r.id = rid /\ r.uid = uid]_vars

\* C4 (I4): no record has empty content.
C4_ContentNeverEmpty == \A r \in records : r.content # ""

\* C5: a successful add_record adds one record, whose user_seq is 1 when its
\* owner had no record and otherwise 1 + the largest user_seq of that owner's
\* records, in any folder; the records of other owners do not count.
C5_InsertAssignsMaxPlusOne ==
  [][(result'.op = "add_record" /\ result'.ok)
     => \E r \in records' :
          /\ r.id \notin Ids(records)
          /\ records' = records \cup {r}
          /\ r.user_seq = IF SeqsOf(records, r.owner) = {}
                          THEN 1
                          ELSE 1 + Largest(SeqsOf(records, r.owner))]_vars

\* C5 witness: the newest record, just inserted, has user_seq 1 although a
\* record of another owner has user_seq 2, or has the user_seq after that of
\* a record of its owner in another folder.
C5_Witness ==
  /\ result.op = "add_record" /\ result.ok
  /\ \E r \in records :
       /\ r.id = sqlite_sequence.records
       /\ \/ r.user_seq = 1 /\ \E q \in records : q.owner # r.owner /\ q.user_seq = 2
          \/ \E q \in records : /\ q.owner = r.owner
                                /\ q.folder_id # r.folder_id
                                /\ r.user_seq = q.user_seq + 1

\* C6: no two records of one owner have the same user_seq.
C6_NoDuplicateSeq ==
  \A a \in records, b \in records :
    (a.owner = b.owner /\ a.user_seq = b.user_seq) => a.id = b.id

\* C6 witness: after an import, an owner has records in two folders, with
\* different user_seq, and an earlier record is gone.
C6_Witness ==
  /\ result.op = "import_from_excel" /\ result.ok
  /\ \E a \in records, b \in records :
       a.owner = b.owner /\ a.folder_id # b.folder_id /\ a.user_seq # b.user_seq
  /\ Cardinality(records) < sqlite_sequence.records

\* C7 as claimed: a successful add_record gives its record a user_seq larger
\* than every user_seq an insert gave that owner before, deleted records
\* included.
C7_SeqNeverReused ==
  [][(result'.op = "add_record" /\ result'.ok)
     => \A r \in Inserted : r.user_seq > assigned[r.owner]]_vars

\* C7 amended: a successful add_record gives its record a user_seq larger than
\* the user_seq of every record of that owner that exists at the insert.
C7_SeqAboveExisting ==
  [][(result'.op = "add_record" /\ result'.ok)
     => /\ Inserted # {}
        /\ \A r \in Inserted : \A x \in records :
             x.owner = r.owner => r.user_seq > x.user_seq]_vars

\* C7 witness: the newest record was inserted after a delete left a gap below
\* it: its user_seq exceeds the number of its owner's records.
C7_Witness ==
  /\ result.op = "add_record" /\ result.ok
  /\ \E r \in records :
       /\ r.id = sqlite_sequence.records
       /\ r.user_seq = 3
       /\ Cardinality({x \in records : x.owner = r.owner}) = 2

\* C8: a step of any operation but the rebuild leaves the user_seq of every
\* record that exists before and after it unchanged.
C8_OnlyRebuildRenumbers ==
  [][result'.op # "recalculate_all_sequences"
     => \A r \in records, q \in records' : r.id = q.id => q.user_seq = r.user_seq]_vars

\* C8 witness: after a delete_record the owner's remaining record still has
\* user_seq 2 and no record of that owner has user_seq 1.
C8_Witness ==
  /\ result.op = "delete_record"
  /\ \E r \in records :
       /\ r.user_seq = 2
       /\ \A x \in records : x.owner = r.owner => x.user_seq # 1

\* A row without its user_seq.
SansSeq(r) == [r EXCEPT !.user_seq = 0]

\* C9: after recalculate_all_sequences the N records of each owner have the
\* user_seq values 1..N, ascending with the system id, and no other field of
\* any record has changed.
C9_RebuildNumbersEachOwner ==
  [][result'.op = "recalculate_all_sequences"
     => /\ {SansSeq(r) : r \in records'} = {SansSeq(r) : r \in records}
        /\ \A o \in {r.owner : r \in records'} \ {NullText} :
             LET mine == {r \in records' : r.owner = o}
             IN /\ SeqsOf(records', o) = 1..Cardinality(mine)
                /\ \A a \in mine, b \in mine :
                     a.id < b.id <=> a.user_seq < b.user_seq]_vars

\* C9 witness: after a rebuild an owner who was once given user_seq 2 has
\* one record, numbered 1, whose id is not the smallest, and another owner
\* has a record too.
C9_Witness ==
  /\ result.op = "recalculate_all_sequences"
  /\ \E r \in records :
       /\ assigned[r.owner] = 2
       /\ SeqsOf(records, r.owner) = {1}
       /\ r.id > 1
       /\ \E q \in records : q.owner # r.owner

\* C10: opening a store whose records table lacks user_seq ends with the
\* seven columns present, in the table and in every row, and with a non-NULL
\* user_seq in every row.
C10_MigrationNumbersEveryRow ==
  [][("user_seq" \notin cols /\ result'.op = "check_and_migrate")
     => /\ cols' = AllCols
        /\ \A r \in records' : DOMAIN r = AllCols /\ r.user_seq # NullInt]_vars

\* C11: register_user fails and leaves users and folders as they are when
\* the username is registered already or the username or the password is
\* empty; otherwise it succeeds and adds one user row and one folder, the
\* default folder of that username.
C11_RegisterAllOrNothing ==
  [][\A username \in Usernames, password \in Passwords :
       register_user(username, password)
       => IF username = "" \/ password = "" \/ username \in Registered
          THEN ~ result'.ok /\ users' = users /\ folders' = folders
          ELSE /\ result'.ok
               /\ Cardinality(users') = Cardinality(users) + 1
               /\ users \subseteq users'
               /\ \A u \in users' \ users : u.username = username
               /\ Cardinality(folders') = Cardinality(folders) + 1
               /\ folders \subseteq folders'
               /\ \A f \in folders' \ folders :
                    f.owner = username /\ f.name = DefaultFolderName]_vars

\* C11 witness: a second user has just been registered, and a registration
\* has been refused before (a folder id is unused or a user is missing).
C11_Witness ==
  /\ result.op = "register_user" /\ result.ok
  /\ Cardinality(users) = 2
  /\ \A u \in users : \E f \in folders : f.owner = u.username

C13_ListedKeepsFolder == \A o \in listed : FoldersOf(folders, o) # {}

\* C13 amended: get_folders leaves its owner with a folder, and no step but
\* a delete_folder takes the last folder of an owner away.
C13_ListEnsuresFolder ==
  [][/\ \A o \in Owners : get_folders(o) => FoldersOf(folders', o) # {}
     /\ result'.op # "delete_folder"
          => \A o \in Owners : FoldersOf(folders, o) # {} => FoldersOf(folders', o) # {}]_vars

\* C13 witness: get_folders has just inserted the default folder of an owner
\* it had been called for before, whose earlier folder was deleted.
C13_Witness ==
  /\ result.op = "get_folders"
  /\ \E o \in listed :
       /\ FoldersOf(folders, o) = {sqlite_sequence.folders}
       /\ sqlite_sequence.folders > 1
       /\ Cardinality(folders) = 1

\* C14: delete_folder(folder_id, owner) of a folder of that owner removes that
\* folder and the owner's records with that folder_id, and nothing else: not
\* another folder, not a record of the owner in another folder, not a record
\* of another owner, whatever its folder_id.
C14_DeleteFolderCascade ==
  [][\A folder_id \in FolderIds, owner \in Owners :
       (delete_folder(folder_id, owner) /\ folder_id \in FoldersOf(folders, owner))
       => /\ folder_id \notin Ids(folders')
          /\ \A f \in folders : f.id # folder_id => f \in folders'
          /\ folders' \subseteq folders
          /\ \A r \in records :
               r \in records' <=> ~(r.folder_id = folder_id /\ r.owner = owner)
          /\ records' \subseteq records]_vars

\* C14 witness: a delete_folder has removed a folder and a record, and a
\* record of another owner with the folder_id of the deleted folder is still
\* there.
C14_Witness ==
  /\ result.op = "delete_folder"
  /\ Cardinality(records) < sqlite_sequence.records
  /\ Cardinality(folders) < sqlite_sequence.folders
  /\ \E r \in records :
       /\ r.folder_id <= sqlite_sequence.folders
       /\ r.folder_id \notin Ids(folders)

\* C15 (I3): the folder_id of every record is the id of a folder of the
\* record's owner.
C15_FolderOfSameOwner == \A r \in records : InOwnFolder(r, folders)

\* C16: a record is inserted with status 0 (pending), the status of every
\* record is 0 or 1, a successful toggle_status turns the status of its record
\* from 0 to 1 or from 1 to 0 (so two in a row restore it) and leaves the
\* others as they are, and no step of another operation changes the status of
\* a record that exists before and after it.
C16_StatusMachine ==
  [][/\ \A q \in records' : /\ q.status \in {0, 1}
                              /\ q.id \notin Ids(records) => q.status = 0
     /\ \A rid \in RecIds, owner \in Owners :
          (result'.op = "toggle_status" /\ result'.ok /\ toggle_status(rid, owner))
          => /\ Ids(records') = Ids(records)
             /\ \A r \in records : \A q \in records' :
                  q.id = r.id
                  => q.status = IF r.id = rid /\ r.owner = owner
                                THEN 1 - r.status
                                ELSE r.status
     /\ result'.op # "toggle_status"
          => \A r \in records : \A q \in records' :
               q.id = r.id => q.status = r.status]_vars

\* C16 witness: a toggle_status has just put a record back to status 0 while
\* an older record has status 1.
C16_Witness ==
  /\ result.op = "toggle_status" /\ result.ok
  /\ \E r \in records, q \in records :
       r.id < q.id /\ r.status = 1 /\ q.status = 0 /\ q.uid = "A1"

\* C17: update_record and update_uid_only called with an id for which the
\* owner given has no record (no record has it, or one of another owner)
\* return a failure and change no record.
C17_UpdateOfMissingReported ==
  [][\A rid \in RecIds, uid \in Uids, owner \in Owners, folder_id \in FolderIds :
       /\ result'.op \in {"update_uid_only", "update_record"}
       /\ ~ \E r \in records : r.id = rid /\ r.owner = owner
       /\ (update_uid_only(rid, uid, owner, folder_id)
           \/ \E cont \in Contents :
                update_record(rid, uid, DefaultCategory, cont, "", DefaultPriority,
                              owner, folder_id))
       => ~ result'.ok /\ records' = records]_vars

\* The record a returned row shows.
RecordOf(row) == CHOOSE r \in records : r.id = row.id

\* C19: a search with the pending status filter returns no done record and
\* one with the done status filter no pending record, whatever the owner, the
\* folder, the category filter, the search field and the keyword.
C19_StatusFilterExcludes ==
  result.op = "get_records" =>
    \A i \in 1..Len(result.rows) :
      LET status == RecordOf(result.rows[i]).status
      IN /\ result.rows[i].status = status
         /\ result.status_filter = PendingFilter => status # 1
         /\ result.status_filter = DoneFilter => status # 0

\* C19 witness: a search has returned the pending one of two records of an
\* owner that differ in nothing a filter reads but their status, the done one
\* being the older.
C19_Witness ==
  /\ result.op = "get_records"
  /\ result.status_filter = PendingFilter
  /\ Len(result.rows) = 1
  /\ result.rows[1].status = 0
  /\ \E r \in records :
       /\ r.owner = RecordOf(result.rows[1]).owner
       /\ r.status = 1
       /\ r.user_seq < result.rows[1].user_seq
       /\ r.folder_id = result.rows[1].folder_id
       /\ r.category = result.rows[1].category
       /\ r.content = result.rows[1].content
       /\ r.uid = result.rows[1].uid

\* The priority rank of C20: high 1, medium 2, low 3, any other value 4.
C20_Rank(priority) ==
  IF priority = "high" THEN 1
  ELSE IF priority = "medium" THEN 2
  ELSE IF priority = "low" THEN 3
  ELSE 4

\* The order of C20: status, then priority rank, then user_seq descending.
NotAfter(a, b) ==
  \/ a.status < b.status
  \/ /\ a.status = b.status
     /\ \/ C20_Rank(a.priority) < C20_Rank(b.priority)
        \/ /\ C20_Rank(a.priority) = C20_Rank(b.priority)
           /\ a.user_seq >= b.user_seq

\* C20: in the sequence a search returns, each row is not after the next one
\* in the order by status ascending, priority rank ascending and user_seq
\* descending.
C20_SearchOrdered ==
  [][result'.op = "get_records" =>
       \A i \in 1..Len(result'.rows) - 1 :
         NotAfter(RecordOf(result'.rows[i]), RecordOf(result'.rows[i + 1]))]_vars

\* C20 witness: a search has returned two rows of one status, the record of
\* high priority before the later-numbered one of an unrecognised priority.
C20_Witness ==
  /\ result.op = "get_records"
  /\ Len(result.rows) = 2
  /\ result.rows[1].status = result.rows[2].status
  /\ result.rows[1].priority = "high" /\ result.rows[2].priority = "urgent"
  /\ result.rows[1].user_seq < result.rows[2].user_seq

\* text contains keyword at some position, letters compared without case.
Contains(t, keyword) ==
  \E i \in 0..Len(t) - Len(keyword) :
    \A j \in 1..Len(keyword) : Fold(t[i + j]) = Fold(keyword[j])

\* The records a search is to return: those of the owner that pass every
\* active filter.
C21_Matching(owner, folder_id, category_filter, status_filter, search_field, keyword) ==
  {r \in records :
     /\ r.owner = owner
     /\ folder_id # -1 => r.folder_id = folder_id
     /\ category_filter # AllFilter => r.category = category_filter
     /\ status_filter = PendingFilter => r.status = 0
     /\ status_filter = DoneFilter => r.status = 1
     /\ keyword # "" =>
          LET inUid == r.uid # NullText /\ Contains(Chars(r.uid), Chars(keyword))
              inContent == r.content # NullText
                           /\ Contains(Chars(r.content), Chars(keyword))
              inSeq == r.user_seq # NullInt
                       /\ Contains(CastText(r.user_seq), Chars(keyword))
          IN CASE search_field = ByUid -> inUid
               [] search_field = ByContent -> inContent
               [] search_field = BySeq -> inSeq
               [] OTHER -> inUid \/ inContent \/ inSeq}

\* C21: a search returns, once each, exactly the records of the owner that
\* pass every active filter: folder -1 is every folder, the category filter
\* "all" and an empty keyword narrow nothing, and the search field says which
\* of uid, content and the decimal text of user_seq must contain the keyword.
C21_SearchExact ==
  [][result'.op = "get_records" =>
       \A scope \in SearchScopes, status_filter \in StatusFilters,
          search \in SearchKeywords :
         get_records(scope[1], scope[2], scope[3], status_filter, search[1], search[2])
         => /\ {result'.rows[i].id : i \in 1..Len(result'.rows)}
                 = Ids(C21_Matching(scope[1], scope[2], scope[3], status_filter,
                                    search[1], search[2]))
            /\ \A i, j \in 1..Len(result'.rows) :
                 result'.rows[i].id = result'.rows[j].id => i = j
            /\ \A i \in 1..Len(result'.rows) :
                 /\ result'.rows[i] = SearchColumns(RecordOf(result'.rows[i]))
                 /\ RecordOf(result'.rows[i]).owner = scope[1]]_vars

\* C22: two inserts of one owner that run at the same time, each the read of
\* the owner's largest user_seq and then the write of the new record, never
\* store the same user_seq in both records.
C22_NoSharedSequence ==
  \A a, b \in records :
    (a.owner = b.owner /\ a.user_seq = b.user_seq) => a.id = b.id

\* The records of a folder of an owner.
InFolder(recs, folder_id, owner) ==
  {r \in recs : r.folder_id = folder_id /\ r.owner = owner}

\* C25: delete_folder is atomic with its cascade. Whatever step happens while
\* a connection is inside delete_folder (a crash of it included), the stored
\* tables stay as they are or change to the tables without the folder and
\* without its records; and no step takes the row of a folder away and
\* leaves a record of that folder stored.
C25_DeleteFolderAtomic ==
  [][/\ \A c \in Conns :
          LET Deleting(k) == k.pc \in {"delete_folders", "commit_delete"}
              call == IF Deleting(conn[c]) THEN conn[c] ELSE conn'[c]
          IN Deleting(call)
             => \/ <<folders', records'>> = <<folders, records>>
                \/ /\ folders' = {f \in folders : ~(f.id = call.folder_id
                                                       /\ f.owner = call.owner)}
                   /\ records' = records \ InFolder(records, call.folder_id, call.owner)
     /\ \A f \in folders \ folders' : InFolder(records', f.id, f.owner) = {}]_vars

\* C25 witness: a delete_folder of the only folder, which holds a record, has
\* crashed after both of its DELETE statements; the folder and the record are
\* stored.
C25_Witness ==
  /\ result = Result("delete_folder", FALSE, "crash after DELETE FROM folders")
  /\ \A c \in Conns : conn[c].pc = "idle"
  /\ Cardinality(folders) = 1
  /\ \A f \in folders : InFolder(records, f.id, f.owner) # {}

\* C26: update_user_credentials(old_u, new_u, new_p) with old_u registered and
\* new_u another registered user fails and leaves users, folders and records
\* as they were: no row is renamed and the rows of the two owners do not merge.
C26_RenameToTakenFails ==
  [][result'.op = "update_user_credentials" =>
       \A old_u \in Registered, new_p \in Passwords :
         \A new_u \in Registered \ {old_u} :
           update_user_credentials(old_u, new_u, new_p)
           => /\ ~ result'.ok
              /\ UNCHANGED <<users, folders, records>>]_vars

\* C26 witness: a change of credentials has failed while two users are
\* registered and each owns a folder and one of them a record.
C26_Witness ==
  /\ result.op = "update_user_credentials" /\ ~ result.ok
  /\ Cardinality(Registered) = 2
  /\ \A o \in Registered : FoldersOf(folders, o) # {}
  /\ \E r \in records : r.owner \in Registered

\* C23: import_from_excel validates every row as add_record does: no row it
\* stores has empty content, and none has a non-sentinel uid that a record
\* already in the (owner, folder) or an earlier row of the same sheet holds.
C23_ImportValidatesRows ==
  [][result'.op = "import_from_excel" =>
       \A r \in Inserted :
         /\ r.content # ""
         /\ ~ IsSentinel(r.uid)
            => \A q \in records' :
                 (q.owner = r.owner /\ q.folder_id = r.folder_id /\ q.uid = r.uid)
                 => q.id = r.id]_vars

\* C24: rename_folder and delete_folder of a folder id that is not a folder
\* of the calling owner succeed and leave every folder and every record, of
\* every owner, unchanged.
C24_ForeignFolderInert ==
  [][\A owner \in Owners :
     \A folder_id \in FolderIds \ FoldersOf(folders, owner) :
       (\/ result'.op = "delete_folder" /\ delete_folder(folder_id, owner)
        \/ /\ result'.op = "rename_folder"
           /\ \E name \in FolderNames : rename_folder(folder_id, name, owner))
       => result'.ok /\ UNCHANGED <<folders, records>>]_vars

\* C18: get_all_duplicates(owner, folder_id) returns, once each, exactly the
\* owner's records (of the folder, or of any folder for -1) whose uid is not
\* the sentinel nor empty and is the uid of another record of the owner in the
\* same folder, by uid then id for a folder and by folder, uid, id for -1.
C18_DuplicatesExact ==
  [][\A owner \in Owners, folder_id \in QueryFolderIds :
       (result'.op = "get_all_duplicates" /\ get_all_duplicates(owner, folder_id))
       => LET rows == result'.rows
              dup == {r \in records :
                        /\ r.owner = owner
                        /\ folder_id # -1 => r.folder_id = folder_id
                        /\ ~ IsSentinel(r.uid)
                        /\ \E q \in records : /\ q.id # r.id
                                                /\ q.owner = owner
                                                /\ q.folder_id = r.folder_id
                                                /\ q.uid = r.uid}
          IN /\ {rows[i].id : i \in 1..Len(rows)} = Ids(dup)
             /\ Len(rows) = Cardinality(dup)
             /\ \A i \in 1..Len(rows) : rows[i] = DupColumns(RecordOf(rows[i]))
             /\ \A i \in 1..Len(rows) - 1 :
                  LET a == RecordOf(rows[i])
                      b == RecordOf(rows[i + 1])
                  IN \/ folder_id = -1 /\ a.folder_id < b.folder_id
                     \/ /\ a.folder_id = b.folder_id
                        /\ \/ UidOrder(a.uid) < UidOrder(b.uid)
                           \/ a.uid = b.uid /\ a.id < b.id]_vars

\* C18 witness: a query has returned four rows, the two records of one uid
\* before the two of another although one of the latter is older.
C18_Witness ==
  /\ result.op = "get_all_duplicates"
  /\ Len(result.rows) = 4
  /\ result.rows[1].uid = "A1" /\ result.rows[3].uid = "B2"
  /\ result.rows[3].id < result.rows[2].id

====
